---- MODULE Spec2Model ----
(***************************************************************************)
(* Batch verification and on-chain minting pipeline of EARTHX:             *)
(* BlockchainService.triggerMint and its three entry points (the verify    *)
(* flow of BatchController.verifyBatch, the manual retry endpoint          *)
(* BatchController.retryBatchMint and the sweep                            *)
(* BlockchainService.retryFailedBatches) running against one row of the    *)
(* batches table.  Every await of the TypeScript code is one step, so the  *)
(* runs of different entry points interleave at exactly the points where   *)
(* the event loop can switch between them.                                 *)
(*                                                                         *)
(* Spec is that pipeline; ShutdownSpec adds a shutdown of the process.     *)
(* VerifySpec is one call of VerificationService.verifyBatchWeight on      *)
(* enumerated inputs, SweepSpec one call of retryFailedBatches against a   *)
(* table of batches.                                                       *)
(***************************************************************************)
EXTENDS Integers, FiniteSets, Sequences, TLC

(***************************************************************************)
(* Program constants and bounds.                                           *)
(***************************************************************************)
\* BLOCKCHAIN_CONSTANTS.MAX_RETRIES
MAX_RETRIES == 3

\* BLOCKCHAIN_CONSTANTS.RETRY_DELAY, the base backoff delay in milliseconds
RETRY_DELAY == 5000

\* COLLECTION_LIMITS.TOLERANCE_PERCENTAGE
TOLERANCE_PERCENTAGE == 5

\* the review threshold of verifyBatchWeight, in percent
REVIEW_THRESHOLD == 20

\* the LIMIT of retryFailedBatches' selection
SWEEP_LIMIT == 10

\* triggerMint calls started in one behaviour
MaxRuns == 2

\* connections of the pool that serve statements, and transactions a
\* createBatch call links
NumClients == 2
NumTransactions == 2

\* verifyBatch requests followed for one batch
MaxRounds == 2

\* transactions of a batch screened for suspicious patterns
MaxTransactions == 6

\* verified weights, in grams, rewards are calculated for
MaxRewardWeight == 30

\* rows of the batches table a sweep runs against
NumBatches == 11

\* largest original batch weight, in the unit the weights are stored in
MaxWeight == 20

NULL == "NULL"

\* last_attempt is kept relative to the clock: NULL, within the last hour
\* ("recent", the value new Date() has when it is written) or more than an
\* hour ago ("old"), which is all retryFailedBatches' INTERVAL '1 hour' reads
Timestamps == {NULL, "recent", "old"}

\* the row does not exist in the batches table
NoBatch == [exists |-> FALSE]

\* the entry points through which triggerMint is called
Callers == {"verify", "manual", "sweep"}

\* the verifyBatch requests that can be in progress at once
Verifiers == {"v1", "v2"}

\* errors executeMintTransaction throws, by their code: a GasError
\* (retryable, as NonceError and the generic TRANSACTION_ERROR are), a
\* ContractError and the plain BlockchainError for insufficient funds
ErrorCodes == {"GAS_ERROR", "CONTRACT_ERROR", "INSUFFICIENT_FUNDS"}

\* the codes of the typed errors: GasError, NonceError, ContractError, and
\* BlockchainError with INSUFFICIENT_FUNDS or TRANSACTION_ERROR
TypedErrors ==
  {"GAS_ERROR", "NONCE_ERROR", "CONTRACT_ERROR", "INSUFFICIENT_FUNDS",
   "TRANSACTION_ERROR"}

\* the retryable flag each error is constructed with
Retryable(e) == e \in {"GAS_ERROR", "NONCE_ERROR", "TRANSACTION_ERROR"}

MintStatuses == {"PENDING_MINT", "MINTED", "FAILED_ON_CHAIN", "RETRYING"}

\* what getBatchTransactionSummary's query can yield: an error, no row, the
\* row of a batch without transactions (COUNT 0, COALESCE(SUM, 0) = 0), or
\* the count and the weight sum of a batch's transactions
Summaries ==
  {[load |-> "error"], [load |-> "notfound"],
   [load |-> "ok", transactionCount |-> 0, totalOriginalWeight |-> 0]}
  \cup [load : {"ok"}, transactionCount : {1, 2},
        totalOriginalWeight : 1..MaxWeight]

\* the verified weights a recycler can submit
VerifiedWeights == 1..(2 * MaxWeight)

VARIABLES
  batch,        \* the row of the batches table, or NoBatch
  wallets,      \* users.wallet_address of the batch's collector and recycler
  initialized,  \* BlockchainService.initialized, set by the constructor
  interrupted,  \* the process was shut down during a sleep or a confirmation wait
  createdBy,    \* how the row came to exist: "none", "seed" or "createBatch"
  vpc,          \* position of the verifyBatch request handler
  verdict,      \* verificationResult.status of the latest verifyBatch that wrote
  pc,           \* position of each caller's triggerMint run
  retryCount,   \* triggerMint's local retryCount
  lastError,    \* triggerMint's local lastError (its error class), or NULL
  txOf,         \* result of executeMintTransaction awaiting the MINTED write
  result,       \* what the caller's last triggerMint run returned
  outcomes,     \* outcome of each executeMintTransaction call of the current run
  sleeps,       \* delay in ms of each backoff sleep the current run has begun
  snapVer,      \* verification_status of the row the eligibility read returned
  overlapped,   \* some run did its eligibility read while another was past its own
  runs,         \* triggerMint calls started so far
  exhausted,    \* some run has left the loop after MAX_RETRIES failed attempts
  summary,            \* what the summary query of this verifyBatchWeight call yields
  verified_weight_total,  \* params.verified_weight_total
  auditInsert,        \* whether the INSERT INTO audit_log succeeds: "ok" or "error"
  wpc,                \* position of the verifyBatchWeight call
  verificationResult, \* the WeightComparisonResult built or returned
  audit_log,          \* rows this call has appended to audit_log
  batches,       \* the batches table a sweep runs against, by id
  created_at,    \* batches.created_at, by id
  spc,           \* position of the retryFailedBatches call
  failedBatches, \* result.rows of the selection: ids, in the order returned
  called,        \* ids triggerMint has been called on, in call order
  inMint,        \* ids whose triggerMint call has not returned yet
  successful,    \* retryFailedBatches' local successful
  failed,        \* retryFailedBatches' local failed
  sweepResult,   \* what retryFailedBatches returned
  raised,        \* the errors caught inside executeMintTransaction, with the throwing step
  broadcasts,    \* mint transactions the run has sent to the chain
  cpc,           \* position of the createBatch call
  transactionId, \* index in params.transaction_ids of the transaction in hand
  clients,       \* per pooled connection: its transaction block and the writes in it
  persisted,     \* the writes of the call that are committed, visible to every reader
  newBatch,      \* what createBatch returned: "none", "batch" or "null"
  stored,        \* the verification columns of the batches row under verification
  round,         \* verifyBatch requests made for that row
  build,         \* the build of detectSuspiciousPatterns in use: "source" or "compiled"
  fpc,           \* position of the detectSuspiciousPatterns call
  detection,     \* what detectSuspiciousPatterns returned
  rewardWeight,      \* calculateEIURewards' verifiedWeight, in grams
  transactionCount,  \* calculateEIURewards' transactionCount
  rpc,               \* position of the calculateEIURewards call
  rewards            \* what calculateEIURewards returned

vars == <<batch, wallets, initialized, interrupted, createdBy, vpc, verdict, pc, retryCount, lastError,
          txOf, result, outcomes, sleeps, snapVer, overlapped, runs, exhausted,
          summary, verified_weight_total, auditInsert, wpc,
          verificationResult, audit_log,
          batches, created_at, spc, failedBatches, called, inMint,
          successful, failed, sweepResult,
          raised, broadcasts,
          cpc, transactionId, clients, persisted, newBatch,
          stored, round,
          build, fpc, detection,
          rewardWeight, transactionCount, rpc, rewards>>

locals == <<retryCount, lastError, txOf, outcomes, sleeps, snapVer>>

\* the state of VerificationService.verifyBatchWeight
verification == <<summary, verified_weight_total, auditInsert, wpc,
                  verificationResult, audit_log>>

\* the state of BlockchainService.retryFailedBatches
sweeping == <<batches, created_at, spc, failedBatches, called, inMint,
              successful, failed, sweepResult>>

\* the state of one executeMintTransaction call followed step by step
chain == <<raised, broadcasts>>

\* the state of BatchService.createBatch and of the pool's connections
creating == <<cpc, transactionId, clients, persisted, newBatch>>

\* the row verifyBatch updates, over repeated requests
reverifying == <<stored, round>>

\* the state of VerificationService.detectSuspiciousPatterns
screening == <<build, fpc, detection>>

\* the state of VerificationService.calculateEIURewards
rewarding == <<rewardWeight, transactionCount, rpc, rewards>>

\* the state of the other services followed on their own
aside == <<chain, creating, reverifying, screening, rewarding>>

\* what neither triggerMint nor executeMintTransaction changes
offchain == <<wallets, initialized, interrupted, createdBy, verdict,
              verification, sweeping, creating, reverifying, screening,
              rewarding>>

\* what no step of a triggerMint run changes
env == <<offchain, chain>>

\* the state of the mint pipeline
minting == <<batch, wallets, initialized, interrupted, createdBy, vpc, verdict,
             pc, locals, result, overlapped,
             runs, exhausted>>

(***************************************************************************)
(* The batches row.                                                        *)
(***************************************************************************)
\* column defaults of CREATE TABLE batches for the columns an INSERT omits
SchemaDefaultRow ==
  [exists |-> TRUE, verification_status |-> "pending",
   mint_status |-> "PENDING_MINT", tx_hash |-> NULL, block_number |-> NULL,
   retry_count |-> 0, last_attempt |-> NULL, mint_error |-> NULL]

\* a row already present in the table with mint_status NULL, the
\* not-yet-minted state getBatchForMinting's query selects with IS NULL
SeedRow == [SchemaDefaultRow EXCEPT !.mint_status = NULL]

\* a row left behind by an earlier run of the service: verified, its mint
\* failed on a contract revert at the first attempt more than an hour ago
FailedRow ==
  [SchemaDefaultRow EXCEPT !.verification_status = "verified",
                           !.mint_status = "FAILED_ON_CHAIN",
                           !.retry_count = 1,
                           !.last_attempt = "old",
                           !.mint_error = "CONTRACT_ERROR"]

\* getBatchForMinting without the verification_status condition
GetBatchForMinting_AnyVerification(b) ==
  IF /\ b.exists
     /\ (b.mint_status = NULL \/ b.mint_status = "FAILED_ON_CHAIN")
  THEN b ELSE NoBatch

\* getBatchForMinting selecting only rows whose mint_status is NULL
GetBatchForMinting_NullOnly(b) ==
  IF /\ b.exists
     /\ b.verification_status = "verified"
     /\ b.mint_status = NULL
  THEN b ELSE NoBatch

\* getBatchForMinting without the mint_status condition
GetBatchForMinting_AnyMintStatus(b) ==
  IF /\ b.exists
     /\ b.verification_status = "verified"
  THEN b ELSE NoBatch

\* getBatchForMinting: the row if it is eligible for minting, else no row
GetBatchForMinting(b) ==
  IF /\ b.exists
     /\ b.verification_status = "verified"
     /\ (b.mint_status = NULL \/ b.mint_status = "FAILED_ON_CHAIN")
  THEN b ELSE NoBatch

\* the mapping with FLAGGED treated as a rejection
StatusFor_FlaggedRejects(c) ==
  IF c = "APPROVED" THEN "verified" ELSE "rejected"

\* the verification_status verifyBatch passes to updateBatchVerification
\* for a verificationResult.status
StatusFor(c) ==
  IF c = "APPROVED" THEN "verified"
  ELSE IF c = "FLAGGED" THEN "pending" ELSE "rejected"

\* what users.wallet_address can hold for the two users: NULL, the empty
\* string or an address; the column is UNIQUE, so two users share no value
\* but NULL
WalletAddresses ==
  {w \in [collector : {NULL, "", "0xA"}, recycler : {NULL, "", "0xB"}] :
     w.collector = NULL \/ w.collector # w.recycler}

\* getUserAddresses accepting every row its query returns
GetUserAddresses_NotNullOnly(w) ==
  IF Cardinality({r \in {"collector", "recycler"} : w[r] # NULL}) < 2
  THEN [success |-> FALSE, error |-> "Missing wallet addresses"]
  ELSE [success |-> TRUE, error |-> NULL]

\* getUserAddresses: the query returns the users whose wallet_address IS NOT
\* NULL; fewer than two rows is a failure, and so is a falsy address
GetUserAddresses(w) ==
  IF Cardinality({r \in {"collector", "recycler"} : w[r] # NULL}) < 2
  THEN [success |-> FALSE, error |-> "Missing wallet addresses"]
  ELSE IF w.collector = "" \/ w.recycler = ""
  THEN [success |-> FALSE, error |-> "Invalid wallet addresses"]
  ELSE [success |-> TRUE, error |-> NULL]

\* updateBatchMintStatus with mint_status missing from the SET list
UpdateBatchMintStatus_StatusOmitted(b, mintStatus, txHash, blockNumber, rc, lastAttempt, err) ==
  IF b.exists
  THEN [b EXCEPT !.tx_hash = txHash,
                 !.block_number = blockNumber, !.retry_count = rc,
                 !.last_attempt = lastAttempt, !.mint_error = err]
  ELSE b

\* updateBatchMintStatus: one UPDATE that sets all six mint columns, the
\* absent members of the status object as NULL (retryCount as 0)
UpdateBatchMintStatus(b, mintStatus, txHash, blockNumber, rc, lastAttempt, err) ==
  IF b.exists
  THEN [b EXCEPT !.mint_status = mintStatus, !.tx_hash = txHash,
                 !.block_number = blockNumber, !.retry_count = rc,
                 !.last_attempt = lastAttempt, !.mint_error = err]
  ELSE b

\* the while condition with <= for <
LoopCond_Inclusive(rc) == rc <= MAX_RETRIES

\* the while condition of the retry loop
LoopCond(rc) == rc < MAX_RETRIES

\* the condition guarding the backoff sleep
SleepCond(rc) == rc < MAX_RETRIES

\* the delay computed from the count as it was before the increment
BackoffDelay_FromZero(rc) == RETRY_DELAY * 2 ^ rc

\* const delay = retryDelay * Math.pow(2, retryCount - 1), computed in the
\* catch block after retryCount++ (so rc >= 1)
BackoffDelay(rc) == RETRY_DELAY * 2 ^ (rc - 1)

\* the catch block without its break
NonRetryable_Never(e) == FALSE

\* the catch block's test that ends the loop without a RETRYING write
NonRetryable(e) == e \in TypedErrors /\ ~Retryable(e)

\* retryCount++ moved behind the test, so that only retryable failures count
CountFailure_RetryableOnly(rc, e) == IF Retryable(e) THEN rc + 1 ELSE rc

\* the catch block's retryCount++, which precedes that test
CountFailure(rc, e) == rc + 1

Abs(x) == IF x < 0 THEN -x ELSE x

\* weightDifferencePercentage = (|original - verified| / original) * 100,
\* or 100 when the original weight is not positive: kept as the exact
\* fraction num / den (the double the code computes compares with 5 and 20
\* as the exact fraction does for weights of these magnitudes)
WeightDifferencePercentage(originalWeight, verifiedWeight) ==
  IF originalWeight > 0
  THEN [num |-> Abs(originalWeight - verifiedWeight) * 100, den |-> originalWeight]
  ELSE [num |-> 100, den |-> 1]

\* the tolerance test with < for <=
IsWithinTolerance_Strict(pct) == pct.num < TOLERANCE_PERCENTAGE * pct.den

\* weightDifferencePercentage <= COLLECTION_LIMITS.TOLERANCE_PERCENTAGE
IsWithinTolerance(pct) == pct.num <= TOLERANCE_PERCENTAGE * pct.den

\* the status verifyBatchWeight assigns to a percentage
StatusOf(pct) ==
  IF IsWithinTolerance(pct) THEN "APPROVED"
  ELSE IF pct.num > REVIEW_THRESHOLD * pct.den THEN "REJECTED"
  ELSE "FLAGGED"

\* the result returned for a batch without transactions or without a row
\* (and by the catch block)
RejectedResult(verifiedWeight) ==
  [isWithinTolerance |-> FALSE,
   weightDifferencePercentage |-> [num |-> 100, den |-> 1],
   originalWeight |-> 0, verifiedWeight |-> verifiedWeight,
   status |-> "REJECTED"]

\* the result built from the summary of a batch with transactions
ComparisonResult(originalWeight, verifiedWeight) ==
  [isWithinTolerance |->
     IsWithinTolerance(WeightDifferencePercentage(originalWeight, verifiedWeight)),
   weightDifferencePercentage |->
     WeightDifferencePercentage(originalWeight, verifiedWeight),
   originalWeight |-> originalWeight, verifiedWeight |-> verifiedWeight,
   status |-> StatusOf(WeightDifferencePercentage(originalWeight, verifiedWeight))]

\* the null getBatchTransactionSummary returns
NoSummary == [load |-> "null"]

\* no WeightComparisonResult yet
NoResult == [status |-> "none"]

\* getBatchTransactionSummary reading the batch's stored total
GetBatchTransactionSummary_StoredTotal(q) ==
  IF q.load = "ok"
  THEN [q EXCEPT !.totalOriginalWeight = stored.total_weight_grams]
  ELSE NoSummary

\* getBatchTransactionSummary: null on a query error and when no row comes
\* back, else the summary
GetBatchTransactionSummary(q) ==
  IF q.load = "ok" THEN q ELSE NoSummary

\* a run is between its eligibility read and its return
InFlight(p) == pc[p] \notin {"idle", "delay", "done"}

\* executeMintTransaction calls made by the current run
Attempts(p) == Len(outcomes[p])

\* a run is past its eligibility check
PastCheck(p) == pc[p] \notin {"idle", "delay", "getBatch", "done"}

(***************************************************************************)
(* Initial state.                                                          *)
(***************************************************************************)
\* no verifyBatchWeight call is in progress
VerificationIdle ==
  /\ summary = [load |-> "notfound"]
  /\ verified_weight_total = 1
  /\ auditInsert = "ok"
  /\ wpc = "idle"
  /\ verificationResult = NoResult
  /\ audit_log = <<>>

\* no retryFailedBatches call has been made
NoSweepResult == [retried |-> -1]

\* retryFailedBatches' locals before the selection
SweepNotStarted ==
  /\ failedBatches = <<>>
  /\ called = <<>>
  /\ inMint = {}
  /\ successful = 0
  /\ failed = 0
  /\ sweepResult = NoSweepResult

\* no sweep is in progress, on an empty table
SweepIdle ==
  /\ batches = <<>>
  /\ created_at = <<>>
  /\ spc = "idle"
  /\ SweepNotStarted

\* no executeMintTransaction call is followed step by step
ChainIdle ==
  /\ raised = <<>>
  /\ broadcasts = 0

\* the connections of the pool: none is inside a transaction block
Clients == 1..NumClients

ClientsIdle == [c \in Clients |-> [block |-> "none", writes |-> {}]]

\* createBatch has not been called
CreateIdle ==
  /\ cpc = "idle"
  /\ transactionId = 0
  /\ clients = ClientsIdle
  /\ persisted = {}
  /\ newBatch = "none"

\* weight_difference_percentage as stored: NULL, or a DECIMAL(5, 2) held
\* in hundredths
NoPercentage == [null |-> TRUE]

\* a pending row nobody has verified, of a batch whose transactions weigh w
PendingRow(w) ==
  [verification_status |-> "pending", total_weight_grams |-> w,
   weight_difference_percentage |-> NoPercentage]

\* no verifyBatch request has been made
ReverifyIdle ==
  /\ stored = PendingRow(1)
  /\ round = 0

\* no detection result yet
NoDetection == [riskScore |-> -1]

\* detectSuspiciousPatterns has not been called
ScreeningIdle ==
  /\ build = "source"
  /\ fpc = "idle"
  /\ detection = NoDetection

\* no rewards calculated yet
NoRewards == [totalEIU |-> "none"]

\* calculateEIURewards has not been called
RewardIdle ==
  /\ rewardWeight = 0
  /\ transactionCount = 0
  /\ rpc = "idle"
  /\ rewards = NoRewards

\* the services followed on their own are not in use
AsideIdle ==
  ChainIdle /\ CreateIdle /\ ReverifyIdle /\ ScreeningIdle /\ RewardIdle

\* no request and no triggerMint run is in progress
RunsIdle ==
  /\ interrupted = FALSE
  /\ vpc = [v \in Verifiers |-> "idle"]
  /\ verdict = NULL
  /\ pc = [p \in Callers |-> "idle"]
  /\ retryCount = [p \in Callers |-> 0]
  /\ lastError = [p \in Callers |-> NULL]
  /\ txOf = [p \in Callers |-> NULL]
  /\ result = [p \in Callers |-> "none"]
  /\ outcomes = [p \in Callers |-> <<>>]
  /\ sleeps = [p \in Callers |-> <<>>]
  /\ snapVer = [p \in Callers |-> NULL]
  /\ overlapped = FALSE
  /\ runs = 0
  /\ exhausted = FALSE

Init ==
  /\ batch \in {NoBatch, SeedRow, FailedRow}
  /\ createdBy = IF batch.exists THEN "seed" ELSE "none"
  /\ wallets \in WalletAddresses
  /\ initialized \in BOOLEAN
  /\ VerificationIdle
  /\ SweepIdle
  /\ AsideIdle
  /\ RunsIdle

(***************************************************************************)
(* Environment and entry points.                                           *)
(***************************************************************************)
\* one hour passes
Tick ==
  /\ batch.exists
  /\ batch.last_attempt = "recent"
  /\ batch' = [batch EXCEPT !.last_attempt = "old"]
  /\ UNCHANGED <<env, vpc, pc, locals, result, overlapped, runs, exhausted>>

\* BatchService.createBatch: the INSERT names neither mint_status nor
\* retry_count, so the row gets the schema's column defaults.  (The path on
\* which a statement fails and the handler rolls back leaves no row.)
CreateBatch ==
  /\ ~batch.exists
  /\ batch' = SchemaDefaultRow
  /\ createdBy' = "createBatch"
  /\ UNCHANGED <<wallets, initialized, interrupted, verdict, verification,
                 sweeping, aside, vpc, pc, locals, result, overlapped, runs, exhausted>>

\* verifyBatch up to its status check: proceeds only on a pending batch
VerifyRead(v) ==
  /\ vpc[v] = "idle"
  /\ batch.exists
  /\ batch.verification_status = "pending"
  /\ vpc' = [vpc EXCEPT ![v] = "classify"]
  /\ UNCHANGED <<batch, env, pc, locals, result, overlapped, runs, exhausted>>

\* verifyBatch awaiting the mint before it responds
AfterLaunch_Awaited(c) == IF c = "APPROVED" THEN "awaitMint" ELSE "idle"

\* where the handler is once the launch is made: triggerMintAsync is called
\* without await and stops at its timer, so the response is sent next
AfterLaunch(c) == "idle"

\* verifyBatch from verifyBatchWeight to the response: persists the status
\* the classification maps to and launches triggerMintAsync on APPROVED.
\* The classification is an input here.  One run launched by the verify
\* flow is followed at a time: an approval is taken when the previous
\* one's run has returned.
VerifyWrite(v, c) ==
  /\ vpc[v] = "classify"
  /\ c = "APPROVED" => pc["verify"] = "idle"
  /\ batch' = [batch EXCEPT !.verification_status = StatusFor(c)]
  /\ verdict' = c
  /\ pc' = IF c = "APPROVED" THEN [pc EXCEPT !["verify"] = "delay"] ELSE pc
  /\ vpc' = [vpc EXCEPT ![v] = AfterLaunch(c)]
  /\ UNCHANGED <<wallets, initialized, interrupted, createdBy, verification,
                 sweeping, aside, locals, result, overlapped, runs, exhausted>>

\* triggerMint without its guard
NotInitialized_Unchecked(i) == FALSE

\* the guard at the head of triggerMint: if (!this.initialized)
NotInitialized(i) == ~i

\* triggerMint is called: it returns at once when the service is not
\* initialized; else let retryCount = 0, lastError = null, and the
\* eligibility read is issued
StartRun(p) ==
  /\ runs < MaxRuns
  /\ runs' = runs + 1
  /\ IF NotInitialized(initialized)
     THEN /\ pc' = [pc EXCEPT ![p] = "done"]
          /\ result' = [result EXCEPT ![p] = "not_initialized"]
     ELSE /\ pc' = [pc EXCEPT ![p] = "getBatch"]
          /\ UNCHANGED result
  /\ UNCHANGED <<locals, overlapped, exhausted>>

\* triggerMintAsync: the one-second timer fires and triggerMint is called
TriggerMintAsync ==
  /\ pc["verify"] = "delay"
  /\ StartRun("verify")
  /\ UNCHANGED <<batch, env, vpc>>

\* retryBatchMint: the controller's own check, then triggerMint
RetryBatchMint ==
  /\ pc["manual"] = "idle"
  /\ batch.exists
  /\ batch.mint_status = "FAILED_ON_CHAIN"
  /\ StartRun("manual")
  /\ UNCHANGED <<batch, env, vpc>>

\* the WHERE clause without the cooldown condition
SweepSelects_NoCooldown(b) ==
  /\ b.exists
  /\ b.mint_status = "FAILED_ON_CHAIN"
  /\ b.retry_count < MAX_RETRIES

\* the WHERE clause of retryFailedBatches' selection
SweepSelects(b) ==
  /\ b.exists
  /\ b.mint_status = "FAILED_ON_CHAIN"
  /\ b.retry_count < MAX_RETRIES
  /\ (b.last_attempt = NULL \/ b.last_attempt = "old")

\* retryFailedBatches: selects the batch and calls triggerMint on it
RetryFailedBatches ==
  /\ pc["sweep"] = "idle"
  /\ SweepSelects(batch)
  /\ StartRun("sweep")
  /\ UNCHANGED <<batch, env, vpc>>

(***************************************************************************)
(* triggerMint, one action per await.  The database statements succeed.    *)
(***************************************************************************)
\* step 1: the eligibility read
GetBatch(p) ==
  /\ pc[p] = "getBatch"
  /\ IF GetBatchForMinting(batch) = NoBatch
     THEN /\ pc' = [pc EXCEPT ![p] = "done"]
          /\ result' = [result EXCEPT ![p] = "not_eligible"]
     ELSE /\ pc' = [pc EXCEPT ![p] = "getAddresses"]
          /\ UNCHANGED result
  /\ snapVer' = [snapVer EXCEPT ![p] =
                   IF GetBatchForMinting(batch) = NoBatch THEN NULL
                   ELSE GetBatchForMinting(batch).verification_status]
  /\ overlapped' = (overlapped \/ \E q \in Callers \ {p} : PastCheck(q))
  /\ UNCHANGED <<batch, env, vpc, retryCount, lastError, txOf, outcomes, sleeps, runs, exhausted>>

\* step 2: the wallet addresses
GetAddresses(p) ==
  /\ pc[p] = "getAddresses"
  /\ IF GetUserAddresses(wallets).success
     THEN /\ pc' = [pc EXCEPT ![p] = "writePending"]
          /\ UNCHANGED result
     ELSE /\ pc' = [pc EXCEPT ![p] = "done"]
          /\ result' = [result EXCEPT ![p] = GetUserAddresses(wallets).error]
  /\ UNCHANGED <<batch, env, vpc, locals, overlapped, runs, exhausted>>

\* step 3: persist PENDING_MINT with retry_count 0
WritePending(p) ==
  /\ pc[p] = "writePending"
  /\ batch' = UpdateBatchMintStatus(batch, "PENDING_MINT", NULL, NULL, 0, "recent", NULL)
  /\ pc' = [pc EXCEPT ![p] = IF LoopCond(retryCount[p]) THEN "attempt"
                             ELSE "writeFailed"]
  /\ UNCHANGED <<env, vpc, locals, result, overlapped, runs, exhausted>>

\* step 4, try: executeMintTransaction returns a confirmed transaction
ExecuteMintOk(p) ==
  /\ pc[p] = "attempt"
  /\ outcomes' = [outcomes EXCEPT ![p] = Append(@, "ok")]
  /\ txOf' = [txOf EXCEPT ![p] = p]
  /\ pc' = [pc EXCEPT ![p] = "writeMinted"]
  /\ UNCHANGED <<batch, env, vpc, retryCount, lastError, sleeps, snapVer, result, overlapped, runs, exhausted>>

\* step 4, catch: executeMintTransaction throws an error of class e
ExecuteMintFail(p, e) ==
  /\ pc[p] = "attempt"
  /\ outcomes' = [outcomes EXCEPT ![p] = Append(@, e)]
  /\ lastError' = [lastError EXCEPT ![p] = e]
  /\ retryCount' = [retryCount EXCEPT ![p] = CountFailure(@, e)]
  /\ pc' = [pc EXCEPT ![p] = IF NonRetryable(e) THEN "writeFailed"
                             ELSE "writeRetrying"]
  /\ UNCHANGED <<batch, env, vpc, txOf, sleeps, snapVer, result, overlapped, runs, exhausted>>

\* step 4, success: persist MINTED and return
WriteMinted(p) ==
  /\ pc[p] = "writeMinted"
  /\ batch' = UpdateBatchMintStatus(batch, "MINTED", txOf[p], txOf[p],
                                    retryCount[p], NULL, NULL)
  /\ result' = [result EXCEPT ![p] = "success"]
  /\ pc' = [pc EXCEPT ![p] = "done"]
  /\ UNCHANGED <<env, vpc, locals, overlapped, runs, exhausted>>

\* step 4, catch: persist RETRYING, then begin the backoff sleep or leave
\* the loop
WriteRetrying(p) ==
  /\ pc[p] = "writeRetrying"
  /\ batch' = UpdateBatchMintStatus(batch, "RETRYING", NULL, NULL,
                                    retryCount[p], "recent", lastError[p])
  /\ pc' = [pc EXCEPT ![p] = IF SleepCond(retryCount[p]) THEN "sleep"
                             ELSE IF LoopCond(retryCount[p]) THEN "attempt"
                             ELSE "writeFailed"]
  /\ sleeps' = IF SleepCond(retryCount[p])
               THEN [sleeps EXCEPT ![p] = Append(@, BackoffDelay(retryCount[p]))]
               ELSE sleeps
  /\ UNCHANGED <<env, vpc, retryCount, lastError, txOf, outcomes, snapVer,
                 result, overlapped, runs, exhausted>>

\* the backoff sleep ends
Sleep(p) ==
  /\ pc[p] = "sleep"
  /\ pc' = [pc EXCEPT ![p] = IF LoopCond(retryCount[p]) THEN "attempt"
                             ELSE "writeFailed"]
  /\ UNCHANGED <<batch, env, vpc, locals, result, overlapped, runs, exhausted>>

\* after the loop: persist FAILED_ON_CHAIN and return failure
WriteFailed(p) ==
  /\ pc[p] = "writeFailed"
  /\ batch' = UpdateBatchMintStatus(batch, "FAILED_ON_CHAIN", NULL, NULL,
                                    retryCount[p], "recent",
                                    IF lastError[p] = NULL THEN "Unknown error"
                                    ELSE lastError[p])
  /\ result' = [result EXCEPT ![p] = "failed"]
  /\ pc' = [pc EXCEPT ![p] = "done"]
  /\ exhausted' = (exhausted \/ (retryCount[p] >= MAX_RETRIES
                                   /\ Retryable(lastError[p])))
  /\ UNCHANGED <<env, vpc, locals, overlapped, runs>>

\* the caller has consumed the returned MintResult; the run's locals are gone
Return(p) ==
  /\ pc[p] = "done"
  /\ pc' = [pc EXCEPT ![p] = "idle"]
  /\ retryCount' = [retryCount EXCEPT ![p] = 0]
  /\ lastError' = [lastError EXCEPT ![p] = NULL]
  /\ txOf' = [txOf EXCEPT ![p] = NULL]
  /\ outcomes' = [outcomes EXCEPT ![p] = <<>>]
  /\ sleeps' = [sleeps EXCEPT ![p] = <<>>]
  /\ snapVer' = [snapVer EXCEPT ![p] = NULL]
  /\ result' = [result EXCEPT ![p] = "none"]
  /\ UNCHANGED <<batch, env, vpc, overlapped, runs, exhausted>>

Next ==
  \/ Tick
  \/ CreateBatch
  \/ \E v \in Verifiers : VerifyRead(v)
  \/ \E v \in Verifiers, c \in {"APPROVED", "FLAGGED", "REJECTED"} : VerifyWrite(v, c)
  \/ TriggerMintAsync
  \/ RetryBatchMint
  \/ RetryFailedBatches
  \/ \E p \in Callers : GetBatch(p)
  \/ \E p \in Callers : GetAddresses(p)
  \/ \E p \in Callers : WritePending(p)
  \/ \E p \in Callers : ExecuteMintOk(p)
  \/ \E p \in Callers, e \in ErrorCodes : ExecuteMintFail(p, e)
  \/ \E p \in Callers : WriteMinted(p)
  \/ \E p \in Callers : WriteRetrying(p)
  \/ \E p \in Callers : Sleep(p)
  \/ \E p \in Callers : WriteFailed(p)
  \/ \E p \in Callers : Return(p)

Spec == Init /\ [][Next]_vars

(***************************************************************************)
(* The pipeline with a shutdown of the process.                            *)
(***************************************************************************)
\* the process is shut down while a run is in its backoff sleep or inside
\* executeMintTransaction, and started again: the requests and runs in
\* progress and their timers are gone, the batches row is as it was
Shutdown ==
  /\ ~interrupted
  /\ \E p \in Callers : pc[p] \in {"sleep", "attempt"}
  /\ interrupted' = TRUE
  /\ vpc' = [v \in Verifiers |-> "idle"]
  /\ pc' = [p \in Callers |-> "idle"]
  /\ retryCount' = [p \in Callers |-> 0]
  /\ lastError' = [p \in Callers |-> NULL]
  /\ txOf' = [p \in Callers |-> NULL]
  /\ result' = [p \in Callers |-> "none"]
  /\ outcomes' = [p \in Callers |-> <<>>]
  /\ sleeps' = [p \in Callers |-> <<>>]
  /\ snapVer' = [p \in Callers |-> NULL]
  /\ UNCHANGED <<batch, wallets, initialized, createdBy, verdict, verification,
                 sweeping, aside, overlapped, runs, exhausted>>

ShutdownNext == Next \/ Shutdown

ShutdownSpec == Init /\ [][ShutdownNext]_vars

(***************************************************************************)
(* One triggerMint run with executeMintTransaction followed through its    *)
(* awaits: getNonce, estimateGas, the send of mintBatch, tx.wait.          *)
(***************************************************************************)
\* the steps of executeMintTransaction, as positions of the run
ExecuteSteps == {"attempt", "estimateGas", "send", "wait"}

\* the errors a step can be rejected with, as the catch block sees them:
\* the code, which of the two substrings it searches the message contains,
\* and what the rejection was.  A revert met while estimating gas is
\* reported either as the call exception it is or as an unpredictable gas
\* limit; a missing receipt is the BlockchainError NO_RECEIPT thrown inside
\* the try block.
NetworkFailure ==
  [cause |-> "network", code |-> "NETWORK_ERROR", message |-> {}]

RawErrors(step) ==
  IF step = "attempt" THEN {NetworkFailure}
  ELSE IF step = "estimateGas" THEN
    {[cause |-> "gas", code |-> "UNPREDICTABLE_GAS_LIMIT", message |-> {}],
     [cause |-> "revert", code |-> "UNPREDICTABLE_GAS_LIMIT", message |-> {"revert"}],
     [cause |-> "revert", code |-> "CALL_EXCEPTION", message |-> {"revert"}],
     [cause |-> "funds", code |-> "INSUFFICIENT_FUNDS", message |-> {"insufficient funds"}],
     NetworkFailure}
  ELSE IF step = "send" THEN
    {[cause |-> "nonce", code |-> "NONCE_EXPIRED", message |-> {}],
     [cause |-> "nonce", code |-> "NONCE_TOO_LOW", message |-> {}],
     [cause |-> "funds", code |-> "INSUFFICIENT_FUNDS", message |-> {"insufficient funds"}],
     NetworkFailure}
  ELSE
    {[cause |-> "revert", code |-> "CALL_EXCEPTION", message |-> {"revert"}],
     [cause |-> "noReceipt", code |-> "NO_RECEIPT", message |-> {}],
     NetworkFailure}

\* the classification with the message tested before the code
ClassifyError_MessageFirst(raw) ==
  IF "revert" \in raw.message THEN "CONTRACT_ERROR"
  ELSE IF "insufficient funds" \in raw.message THEN "INSUFFICIENT_FUNDS"
  ELSE IF raw.code = "UNPREDICTABLE_GAS_LIMIT" THEN "GAS_ERROR"
  ELSE IF raw.code \in {"NONCE_EXPIRED", "NONCE_TOO_LOW"} THEN "NONCE_ERROR"
  ELSE "TRANSACTION_ERROR"

\* the catch block of executeMintTransaction: the typed error it throws
ClassifyError(raw) ==
  IF raw.code = "UNPREDICTABLE_GAS_LIMIT" THEN "GAS_ERROR"
  ELSE IF raw.code \in {"NONCE_EXPIRED", "NONCE_TOO_LOW"} THEN "NONCE_ERROR"
  ELSE IF "revert" \in raw.message THEN "CONTRACT_ERROR"
  ELSE IF "insufficient funds" \in raw.message THEN "INSUFFICIENT_FUNDS"
  ELSE "TRANSACTION_ERROR"

\* the step after a step that succeeded
NextStep(step) ==
  IF step = "attempt" THEN "estimateGas"
  ELSE IF step = "estimateGas" THEN "send"
  ELSE IF step = "send" THEN "wait"
  ELSE "writeMinted"

\* triggerMint has been called on a verified batch that is eligible for
\* minting, by a service that is initialized
ChainInit ==
  /\ batch \in {[SeedRow EXCEPT !.verification_status = "verified"], FailedRow}
  /\ createdBy = "seed"
  /\ wallets = [collector |-> "0xA", recycler |-> "0xB"]
  /\ initialized = TRUE
  /\ VerificationIdle
  /\ SweepIdle
  /\ AsideIdle
  /\ interrupted = FALSE
  /\ vpc = [v \in Verifiers |-> "idle"]
  /\ verdict = NULL
  /\ pc = [p \in Callers |-> IF p = "manual" THEN "getBatch" ELSE "idle"]
  /\ retryCount = [p \in Callers |-> 0]
  /\ lastError = [p \in Callers |-> NULL]
  /\ txOf = [p \in Callers |-> NULL]
  /\ result = [p \in Callers |-> "none"]
  /\ outcomes = [p \in Callers |-> <<>>]
  /\ sleeps = [p \in Callers |-> <<>>]
  /\ snapVer = [p \in Callers |-> NULL]
  /\ overlapped = FALSE
  /\ runs = 1
  /\ exhausted = FALSE

\* a step of executeMintTransaction succeeds; the send broadcasts the
\* transaction, the wait returns its receipt and the call returns
ExecuteStepOk(p) ==
  /\ pc[p] \in ExecuteSteps
  /\ pc' = [pc EXCEPT ![p] = NextStep(pc[p])]
  /\ broadcasts' = IF pc[p] = "send" THEN broadcasts + 1 ELSE broadcasts
  /\ IF pc[p] = "wait"
     THEN /\ outcomes' = [outcomes EXCEPT ![p] = Append(@, "ok")]
          /\ txOf' = [txOf EXCEPT ![p] = p]
     ELSE UNCHANGED <<outcomes, txOf>>
  /\ UNCHANGED <<batch, offchain, vpc, raised, retryCount, lastError, sleeps,
                 snapVer, result, overlapped, runs, exhausted>>

\* a step of executeMintTransaction is rejected with raw: the catch block
\* throws the typed error, and the catch block of the retry loop takes it
ExecuteStepFail(p, raw) ==
  /\ pc[p] \in ExecuteSteps
  /\ raw \in RawErrors(pc[p])
  /\ raised' = Append(raised, [step |-> pc[p], raw |-> raw,
                               thrown |-> ClassifyError(raw)])
  /\ outcomes' = [outcomes EXCEPT ![p] = Append(@, ClassifyError(raw))]
  /\ lastError' = [lastError EXCEPT ![p] = ClassifyError(raw)]
  /\ retryCount' = [retryCount EXCEPT ![p] = CountFailure(@, ClassifyError(raw))]
  /\ pc' = [pc EXCEPT ![p] = IF NonRetryable(ClassifyError(raw))
                             THEN "writeFailed" ELSE "writeRetrying"]
  /\ UNCHANGED <<batch, offchain, vpc, broadcasts, txOf, sleeps, snapVer,
                 result, overlapped, runs, exhausted>>

\* the UPDATE that records MINTED fails: updateBatchMintStatus rethrows the
\* database error inside the try block, and the catch block of the retry
\* loop takes it; it is no BlockchainError, so the loop goes on
WriteMintedFails(p) ==
  /\ pc[p] = "writeMinted"
  /\ lastError' = [lastError EXCEPT ![p] = "DB_ERROR"]
  /\ retryCount' = [retryCount EXCEPT ![p] = CountFailure(@, "DB_ERROR")]
  /\ pc' = [pc EXCEPT ![p] = IF NonRetryable("DB_ERROR")
                             THEN "writeFailed" ELSE "writeRetrying"]
  /\ UNCHANGED <<batch, env, vpc, txOf, outcomes, sleeps, snapVer,
                 result, overlapped, runs, exhausted>>

\* the steps of the run when every statement succeeds
ReliableNext ==
  \E p \in {"manual"} :
    \/ GetBatch(p)
    \/ GetAddresses(p)
    \/ WritePending(p)
    \/ ExecuteStepOk(p)
    \/ \E raw \in UNION {RawErrors(st) : st \in ExecuteSteps} : ExecuteStepFail(p, raw)
    \/ WriteMinted(p)
    \/ WriteRetrying(p)
    \/ Sleep(p)
    \/ WriteFailed(p)

ChainNext == ReliableNext \/ WriteMintedFails("manual")

ChainSpec == ChainInit /\ [][ChainNext]_vars

\* the run with every continuation eventually executed: the event loop
\* runs the code after an await once the awaited promise has settled, every
\* chain call and every statement settles, and the timer of a sleep fires
TerminationSpec == ChainInit /\ [][ReliableNext]_vars /\ WF_vars(ReliableNext)

(***************************************************************************)
(* BatchService.createBatch, called once on NumTransactions transactions.  *)
(* Every statement is a db.query, that is pool.query: the pool runs it on  *)
(* whichever connection it hands out while other requests use the pool.    *)
(***************************************************************************)
\* the writes of one createBatch call
CreateWrites ==
  {<<"batch", 0>>} \cup {<<"link", i>> : i \in 1..NumTransactions}
                  \cup {<<"status", i>> : i \in 1..NumTransactions}

\* the write the statement at a position makes
WriteAt(pos, i) ==
  IF pos = "insertBatch" THEN <<"batch", 0>>
  ELSE IF pos = "link" THEN <<"link", i>>
  ELSE <<"status", i>>

\* the position after the statement at a position has succeeded
AfterStatement(pos, i) ==
  IF pos = "insertBatch"
  THEN (IF NumTransactions = 0 THEN "commit" ELSE "link")
  ELSE IF pos = "link" THEN "update"
  ELSE IF i < NumTransactions THEN "link" ELSE "commit"

\* a write statement on a connection: inside a transaction block it stays
\* with the connection until the block ends, else it is committed at once
Execute(cl, c, w) ==
  IF cl[c].block = "open"
  THEN [cl EXCEPT ![c].writes = @ \cup {w}]
  ELSE cl

Autocommitted(cl, c, w) == IF cl[c].block = "open" THEN {} ELSE {w}

CreateInit ==
  /\ batch = NoBatch
  /\ createdBy = "none"
  /\ wallets = [collector |-> "0xA", recycler |-> "0xB"]
  /\ initialized = TRUE
  /\ RunsIdle
  /\ VerificationIdle
  /\ SweepIdle
  /\ ChainIdle
  /\ ReverifyIdle
  /\ ScreeningIdle
  /\ RewardIdle
  /\ cpc = "begin"
  /\ transactionId = 0
  /\ clients = ClientsIdle
  /\ persisted = {}
  /\ newBatch = "none"

\* await db.query('BEGIN'), run on connection c
CreateBegin(c) ==
  /\ cpc = "begin"
  /\ clients' = [clients EXCEPT ![c].block = "open"]
  /\ cpc' = "insertBatch"
  /\ UNCHANGED <<minting, verification, sweeping, chain, reverifying, screening, rewarding, transactionId,
                 persisted, newBatch>>

\* the INSERT INTO batches, an INSERT INTO transaction_batch or an UPDATE
\* transactions, run on connection c
CreateStatement(c) ==
  /\ cpc \in {"insertBatch", "link", "update"}
  /\ LET i == IF cpc = "insertBatch" THEN 1
              ELSE IF cpc = "update" /\ transactionId < NumTransactions
              THEN transactionId + 1 ELSE transactionId
         w == WriteAt(cpc, transactionId)
     IN /\ clients' = Execute(clients, c, w)
        /\ persisted' = persisted \cup Autocommitted(clients, c, w)
        /\ cpc' = AfterStatement(cpc, transactionId)
        /\ transactionId' = i
  /\ UNCHANGED <<minting, verification, sweeping, chain, reverifying, screening, rewarding, newBatch>>

\* one of these statements fails on connection c: a transaction block open
\* on c is aborted, and the catch block is entered
CreateStatementFails(c) ==
  /\ cpc \in {"insertBatch", "link", "update"}
  /\ clients' = IF clients[c].block = "open"
                THEN [clients EXCEPT ![c].block = "aborted"]
                ELSE clients
  /\ cpc' = "rollback"
  /\ UNCHANGED <<minting, verification, sweeping, chain, reverifying, screening, rewarding, transactionId,
                 persisted, newBatch>>

\* await db.query('COMMIT'), run on connection c, and return newBatch
CreateCommit(c) ==
  /\ cpc = "commit"
  /\ clients' = [clients EXCEPT ![c] = [block |-> "none", writes |-> {}]]
  /\ persisted' = IF clients[c].block = "open"
                  THEN persisted \cup clients[c].writes
                  ELSE persisted
  /\ cpc' = "returned"
  /\ newBatch' = "batch"
  /\ UNCHANGED <<minting, verification, sweeping, chain, reverifying, screening, rewarding, transactionId>>

\* catch: await db.query('ROLLBACK'), run on connection c, and return null
CreateRollback(c) ==
  /\ cpc = "rollback"
  /\ clients' = [clients EXCEPT ![c] = [block |-> "none", writes |-> {}]]
  /\ cpc' = "returned"
  /\ newBatch' = "null"
  /\ UNCHANGED <<minting, verification, sweeping, chain, reverifying, screening, rewarding, transactionId,
                 persisted>>

CreateNext ==
  \/ \E c \in Clients : CreateBegin(c)
  \/ \E c \in Clients : CreateStatement(c)
  \/ \E c \in Clients : CreateStatementFails(c)
  \/ \E c \in Clients : CreateCommit(c)
  \/ \E c \in Clients : CreateRollback(c)

CreateSpec == CreateInit /\ [][CreateNext]_vars

(***************************************************************************)
(* VerificationService.verifyBatchWeight, called once on inputs drawn from *)
(* Summaries and VerifiedWeights.                                          *)
(***************************************************************************)
VerifyInit ==
  /\ batch = NoBatch
  /\ createdBy = "none"
  /\ wallets = [collector |-> "0xA", recycler |-> "0xB"]
  /\ initialized = TRUE
  /\ RunsIdle
  /\ SweepIdle
  /\ AsideIdle
  /\ summary \in Summaries
  /\ verified_weight_total \in VerifiedWeights
  /\ auditInsert \in {"ok", "error"}
  /\ wpc = "summary"
  /\ verificationResult = NoResult
  /\ audit_log = <<>>

\* steps 1 to 3: the summary comes back; without a summary or without
\* transactions the call returns REJECTED at once, else the result is
\* built and the audit INSERT issued
LoadSummary ==
  /\ wpc = "summary"
  /\ IF \/ GetBatchTransactionSummary(summary) = NoSummary
        \/ GetBatchTransactionSummary(summary).transactionCount = 0
     THEN /\ verificationResult' = RejectedResult(verified_weight_total)
          /\ wpc' = "returned"
     ELSE /\ verificationResult' =
               ComparisonResult(
                 GetBatchTransactionSummary(summary).totalOriginalWeight,
                 verified_weight_total)
          /\ wpc' = "log"
  /\ UNCHANGED <<minting, aside, sweeping, summary, verified_weight_total,
                 auditInsert, audit_log>>

\* step 4: logVerificationAttempt appends the audit row, or swallows the
\* error of the INSERT; then the result is returned
LogVerificationAttempt ==
  /\ wpc = "log"
  /\ audit_log' =
       IF auditInsert = "ok"
       THEN Append(audit_log,
                   [original_weight |-> verificationResult.originalWeight,
                    verified_weight |-> verificationResult.verifiedWeight,
                    status |-> verificationResult.status])
       ELSE audit_log
  /\ wpc' = "returned"
  /\ UNCHANGED <<minting, aside, sweeping, summary, verified_weight_total,
                 auditInsert, verificationResult>>

VerifyNext == LoadSummary \/ LogVerificationAttempt

VerifySpec == VerifyInit /\ [][VerifyNext]_vars

(***************************************************************************)
(* BatchController.verifyBatch on one pending batch, request after         *)
(* request: verifyBatchWeight, then updateBatchVerification.  The batch's  *)
(* transactions, and so the summary the query yields, do not change.       *)
(***************************************************************************)
ReverifyInit ==
  /\ batch = NoBatch
  /\ createdBy = "none"
  /\ wallets = [collector |-> "0xA", recycler |-> "0xB"]
  /\ initialized = TRUE
  /\ RunsIdle
  /\ SweepIdle
  /\ ChainIdle
  /\ CreateIdle
  /\ ScreeningIdle
  /\ RewardIdle
  /\ summary \in {q \in Summaries : q.load = "ok" /\ q.transactionCount >= 1}
  /\ verified_weight_total \in VerifiedWeights
  /\ auditInsert = "ok"
  /\ wpc = "summary"
  /\ verificationResult = NoResult
  /\ audit_log = <<>>
  /\ stored = PendingRow(summary.totalOriginalWeight)
  /\ round = 1

\* updateBatchVerification: the UPDATE sets total_weight_grams to the
\* verified weight and verification_status to the mapped status; it does
\* not name weight_difference_percentage.  Then the response is sent.
UpdateBatchVerification ==
  /\ wpc = "returned"
  /\ stored' = [stored EXCEPT
                  !.total_weight_grams = verified_weight_total,
                  !.verification_status = StatusFor(verificationResult.status)]
  /\ wpc' = "responded"
  /\ UNCHANGED <<minting, sweeping, chain, creating, screening, rewarding, round, summary,
                 verified_weight_total, auditInsert, verificationResult,
                 audit_log>>

\* another verifyBatch request for the batch, with verified weight w: it
\* passes the status check while the row is pending
VerifyBatchAgain(w) ==
  /\ wpc = "responded"
  /\ stored.verification_status = "pending"
  /\ round < MaxRounds
  /\ round' = round + 1
  /\ verified_weight_total' = w
  /\ verificationResult' = NoResult
  /\ wpc' = "summary"
  /\ UNCHANGED <<minting, sweeping, chain, creating, screening, rewarding, stored, summary,
                 auditInsert, audit_log>>

ReverifyNext ==
  \/ LoadSummary
  \/ LogVerificationAttempt
  \/ UpdateBatchVerification
  \/ \E w \in VerifiedWeights : VerifyBatchAgain(w)

ReverifySpec == ReverifyInit /\ [][ReverifyNext]_vars

(***************************************************************************)
(* VerificationService.detectSuspiciousPatterns, called once on a summary  *)
(* drawn from FraudSummaries.                                              *)
(***************************************************************************)
\* the transactions of a batch of n: weights w[i], citizens all distinct
\* or the first two the same, created within one minute (ten seconds
\* apart) or a minute apart; times in milliseconds
Transactions(n, w, citizens, times) ==
  [i \in 1..n |->
     [weight_grams |-> w[i],
      citizen_id |-> IF citizens = "repeat" /\ i = 2 THEN 1 ELSE i,
      created_at |-> IF times = "burst" THEN 10000 * (i - 1)
                     ELSE 60000 * (i - 1)]]

RECURSIVE SumWeights(_, _)
SumWeights(txs, k) ==
  IF k = 0 THEN 0 ELSE txs[k].weight_grams + SumWeights(txs, k - 1)

\* what getBatchTransactionSummary yields for a batch with transactions:
\* their count, the sum of their weights and the transactions themselves
SummaryOf(txs) ==
  [load |-> "ok", transactionCount |-> Len(txs),
   totalOriginalWeight |-> SumWeights(txs, Len(txs)), transactions |-> txs]

FraudSummaries ==
  {[load |-> "error"], [load |-> "notfound"]}
  \cup {SummaryOf(Transactions(n, w, citizens, times)) :
          n \in 1..MaxTransactions,
          w \in [1..MaxTransactions -> {50, 100, 20000}],
          citizens \in {"distinct", "repeat"},
          times \in {"burst", "spread"}}

Max(S) == CHOOSE x \in S : \A y \in S : y <= x
Min(S) == CHOOSE x \in S : \A y \in S : x <= y

\* Check 1: smallTransactions.length > transactionCount * 0.8, which for
\* these counts is 5 * length > 4 * transactionCount
SmallTransactions(q) ==
  {i \in 1..Len(q.transactions) : q.transactions[i].weight_grams < 100}

HighConcentration(q) ==
  5 * Cardinality(SmallTransactions(q)) > 4 * q.transactionCount

\* Check 2: uniqueWeights.size === 1 && transactionCount > 5
IdenticalWeights(q) ==
  /\ Cardinality({q.transactions[i].weight_grams :
                    i \in 1..Len(q.transactions)}) = 1
  /\ q.transactionCount > 5

\* Check 3: some citizen_id counted more than once
DuplicateCitizens(q) ==
  \E i, j \in 1..Len(q.transactions) :
    i # j /\ q.transactions[i].citizen_id = q.transactions[j].citizen_id

\* Check 4: totalOriginalWeight / transactionCount > 10000
HighAverage(q) == q.totalOriginalWeight > 10000 * q.transactionCount

\* Check 5, which the compiled build does not have: more than one
\* transaction and max - min of the creation times under 60000 ms
ShortTimeSpan(q, b) ==
  /\ b = "source"
  /\ Len(q.transactions) > 1
  /\ LET timestamps == {q.transactions[i].created_at :
                          i \in 1..Len(q.transactions)}
     IN Max(timestamps) - Min(timestamps) < 60000

\* the reasons pushed and the riskScore added up, check by check
Reasons(q, b) ==
  (IF HighConcentration(q) THEN <<"small transactions">> ELSE <<>>)
  \o (IF IdenticalWeights(q) THEN <<"identical weights">> ELSE <<>>)
  \o (IF DuplicateCitizens(q) THEN <<"duplicate citizens">> ELSE <<>>)
  \o (IF HighAverage(q) THEN <<"high average weight">> ELSE <<>>)
  \o (IF ShortTimeSpan(q, b) THEN <<"short time period">> ELSE <<>>)

RiskScore(q, b) ==
  (IF HighConcentration(q) THEN 30 ELSE 0)
  + (IF IdenticalWeights(q) THEN 40 ELSE 0)
  + (IF DuplicateCitizens(q) THEN 20 ELSE 0)
  + (IF HighAverage(q) THEN 25 ELSE 0)
  + (IF ShortTimeSpan(q, b) THEN 15 ELSE 0)

\* detectSuspiciousPatterns on what the summary query yields
DetectSuspiciousPatterns(q, b) ==
  IF GetBatchTransactionSummary(q) = NoSummary
  THEN [isSuspicious |-> TRUE, reasons |-> <<"Batch not found">>,
        riskScore |-> 100]
  ELSE [isSuspicious |-> RiskScore(q, b) > 50, reasons |-> Reasons(q, b),
        riskScore |-> RiskScore(q, b)]

FraudInit ==
  /\ batch = NoBatch
  /\ createdBy = "none"
  /\ wallets = [collector |-> "0xA", recycler |-> "0xB"]
  /\ initialized = TRUE
  /\ RunsIdle
  /\ SweepIdle
  /\ ChainIdle
  /\ CreateIdle
  /\ ReverifyIdle
  /\ RewardIdle
  /\ summary \in FraudSummaries
  /\ verified_weight_total = 1
  /\ auditInsert = "ok"
  /\ wpc = "idle"
  /\ verificationResult = NoResult
  /\ audit_log = <<>>
  /\ build \in {"source", "compiled"}
  /\ fpc = "called"
  /\ detection = NoDetection

\* the summary comes back and the result is returned
Detect ==
  /\ fpc = "called"
  /\ detection' = DetectSuspiciousPatterns(summary, build)
  /\ fpc' = "returned"
  /\ UNCHANGED <<minting, verification, sweeping, chain, creating,
                 reverifying, rewarding, build>>

FraudNext == Detect

FraudSpec == FraudInit /\ [][FraudNext]_vars

(***************************************************************************)
(* The arithmetic of a JavaScript number: IEEE 754 binary64, rounding to   *)
(* nearest, ties to even.  A value is m * 2^e with m of exactly 53 bits,   *)
(* or zero; m is held as 14-bit limbs, least significant first.  Only      *)
(* non-negative values in the normal range occur.                          *)
(***************************************************************************)
Base == 2 ^ 14

\* the limbs of a sequence of naturals, with carry c
RECURSIVE Carry(_, _)
Carry(s, c) ==
  IF s = <<>>
  THEN (IF c = 0 THEN <<>> ELSE <<c % Base>> \o Carry(<<>>, c \div Base))
  ELSE <<(Head(s) + c) % Base>> \o Carry(Tail(s), (Head(s) + c) \div Base)

\* without high zero limbs
RECURSIVE Trim(_)
Trim(s) ==
  IF s # <<>> /\ s[Len(s)] = 0 THEN Trim(SubSeq(s, 1, Len(s) - 1)) ELSE s

LimbAt(s, k) == IF k \in 1..Len(s) THEN s[k] ELSE 0

RECURSIVE Column(_, _, _, _)
Column(a, b, k, i) ==
  IF i = 0 THEN 0
  ELSE LimbAt(a, i) * LimbAt(b, k + 1 - i) + Column(a, b, k, i - 1)

BigMul(a, b) ==
  Trim(Carry([k \in 1..(Len(a) + Len(b)) |-> Column(a, b, k, Len(a))], 0))

BigAdd(a, b) ==
  Trim(Carry([k \in 1..(IF Len(a) > Len(b) THEN Len(a) ELSE Len(b)) |->
                LimbAt(a, k) + LimbAt(b, k)], 0))

RECURSIVE Width(_)
Width(x) == IF x = 0 THEN 0 ELSE 1 + Width(x \div 2)

BitLength(a) == IF a = <<>> THEN 0 ELSE 14 * (Len(a) - 1) + Width(a[Len(a)])

ShiftLeft(a, n) ==
  Trim([k \in 1..(n \div 14) |-> 0]
       \o Carry([k \in 1..Len(a) |-> a[k] * 2 ^ (n % 14)], 0))

ShiftRight(a, n) ==
  Trim([k \in 1..(Len(a) - (n \div 14)) |->
          (LimbAt(a, k + (n \div 14)) \div 2 ^ (n % 14))
          + (LimbAt(a, k + (n \div 14) + 1) % 2 ^ (n % 14)) * 2 ^ (14 - (n % 14))])

BitAt(a, i) == (LimbAt(a, (i \div 14) + 1) \div 2 ^ (i % 14)) % 2

\* some bit below position i is set
AnyBitBelow(a, i) == a # ShiftLeft(ShiftRight(a, i), i)

Zero == [m |-> <<>>, e |-> 0]

\* the binary64 value nearest to n * 2^e, ties to even
RoundToDouble(n, e) ==
  IF n = <<>> THEN Zero
  ELSE IF BitLength(n) <= 53
  THEN [m |-> ShiftLeft(n, 53 - BitLength(n)), e |-> e - (53 - BitLength(n))]
  ELSE LET cut == BitLength(n) - 53
           q == ShiftRight(n, cut)
           up == /\ BitAt(n, cut - 1) = 1
                 /\ (AnyBitBelow(n, cut - 1) \/ BitAt(q, 0) = 1)
           r == IF up THEN BigAdd(q, <<1>>) ELSE q
       IN IF BitLength(r) > 53
          THEN [m |-> ShiftRight(r, 1), e |-> e + cut + 1]
          ELSE [m |-> r, e |-> e + cut]

\* x * y
Times(x, y) == RoundToDouble(BigMul(x.m, y.m), x.e + y.e)

\* x + y
Plus(x, y) ==
  IF x.m = <<>> THEN y
  ELSE IF y.m = <<>> THEN x
  ELSE LET e == IF x.e < y.e THEN x.e ELSE y.e
       IN RoundToDouble(BigAdd(ShiftLeft(x.m, x.e - e), ShiftLeft(y.m, y.e - e)), e)

\* the number an integer below 2^28 is
Number(n) == RoundToDouble(Trim(Carry(<<n>>, 0)), 0)

\* the literals of calculateEIURewards: 0.1 is 0x1.999999999999ap-4, 0.85
\* is 0x1.b333333333333p-1, 0.05 is 0x1.999999999999ap-5, 0.02 is
\* 0x1.47ae147ae147bp-6, 0.6 is 0x1.3333333333333p-1, 0.3 is
\* 0x1.3333333333333p-2
Literal(text) ==
  IF text = "0.1" THEN [m |-> <<6554, 9830, 6553, 1638>>, e |-> -56]
  ELSE IF text = "0.85" THEN [m |-> <<13107, 3276, 13107, 1740>>, e |-> -53]
  ELSE IF text = "0.05" THEN [m |-> <<6554, 9830, 6553, 1638>>, e |-> -57]
  ELSE IF text = "0.02" THEN [m |-> <<5243, 7864, 11796, 1310>>, e |-> -58]
  ELSE IF text = "0.6" THEN [m |-> <<13107, 3276, 13107, 1228>>, e |-> -53]
  ELSE [m |-> <<13107, 3276, 13107, 1228>>, e |-> -54]

(***************************************************************************)
(* VerificationService.calculateEIURewards, called once on a verified      *)
(* weight and a transaction count.                                         *)
(***************************************************************************)
\* the volume bonus of a batch of count transactions
VolumeBonus(baseEIU, count) ==
  IF count > 50 THEN Times(baseEIU, Literal("0.05"))
  ELSE IF count > 20 THEN Times(baseEIU, Literal("0.02"))
  ELSE Zero

CalculateEIURewards(weight, count) ==
  LET baseEIU == Times(Number(weight), Literal("0.1"))
      citizenRewards == Times(baseEIU, Literal("0.85"))
      collectorBonus == Times(baseEIU, Literal("0.1"))
      recyclerReward == Times(baseEIU, Literal("0.05"))
      volumeBonus == VolumeBonus(baseEIU, count)
  IN [citizenRewards |-> Plus(citizenRewards, Times(volumeBonus, Literal("0.6"))),
      collectorBonus |-> Plus(collectorBonus, Times(volumeBonus, Literal("0.3"))),
      recyclerReward |-> Plus(recyclerReward, Times(volumeBonus, Literal("0.1"))),
      totalEIU |-> Plus(baseEIU, volumeBonus)]

\* the weights and counts of the calls: small weights and the weight of
\* the documented example; counts on both sides of the two bonus steps
RewardWeights == 1..MaxRewardWeight \cup {10000}
RewardCounts == {10, 20, 21, 50, 51}

RewardInit ==
  /\ batch = NoBatch
  /\ createdBy = "none"
  /\ wallets = [collector |-> "0xA", recycler |-> "0xB"]
  /\ initialized = TRUE
  /\ RunsIdle
  /\ VerificationIdle
  /\ SweepIdle
  /\ ChainIdle
  /\ CreateIdle
  /\ ReverifyIdle
  /\ ScreeningIdle
  /\ rewardWeight \in RewardWeights
  /\ transactionCount \in RewardCounts
  /\ rpc = "called"
  /\ rewards = NoRewards

Calculate ==
  /\ rpc = "called"
  /\ rewards' = CalculateEIURewards(rewardWeight, transactionCount)
  /\ rpc' = "returned"
  /\ UNCHANGED <<minting, verification, sweeping, chain, creating,
                 reverifying, screening, rewardWeight, transactionCount>>

RewardNext == Calculate

RewardSpec == RewardInit /\ [][RewardNext]_vars

(***************************************************************************)
(* BlockchainService.retryFailedBatches, called once against a table of    *)
(* NumBatches rows.  What a triggerMint call does to its row is the        *)
(* subject of Spec; here a call starts, and returns success, returns       *)
(* failure or throws.                                                      *)
(***************************************************************************)
Ids == 1..NumBatches

\* rows the selection must pass over: retries exhausted, still cooling
\* down, already minted
ExhaustedRow == [FailedRow EXCEPT !.retry_count = MAX_RETRIES,
                                 !.mint_error = "GAS_ERROR"]
CoolingRow == [FailedRow EXCEPT !.last_attempt = "recent"]
MintedRow ==
  [FailedRow EXCEPT !.mint_status = "MINTED", !.tx_hash = "verify",
                    !.block_number = "verify", !.retry_count = 0,
                    !.last_attempt = NULL, !.mint_error = NULL]

\* the tables: any set of ids holds rows that failed more than an hour
\* ago with retries left, the other ids hold rows of the three other kinds
Tables ==
  {[i \in Ids |-> IF i \in S THEN FailedRow
                  ELSE IF i % 3 = 0 THEN ExhaustedRow
                  ELSE IF i % 3 = 1 THEN CoolingRow ELSE MintedRow] :
     S \in SUBSET Ids}

\* creation orders: ids in order of creation, and in the reverse order
CreationOrders ==
  {[i \in Ids |-> i], [i \in Ids |-> NumBatches + 1 - i]}

\* ORDER BY created_at ASC on a set of ids
RECURSIVE OldestFirst(_, _)
OldestFirst(S, ca) ==
  IF S = {} THEN <<>>
  ELSE LET m == CHOOSE i \in S : \A j \in S : ca[i] <= ca[j]
       IN <<m>> \o OldestFirst(S \ {m}, ca)

\* LIMIT n
Limit(rows, n) == SubSeq(rows, 1, IF Len(rows) < n THEN Len(rows) ELSE n)

\* the selection query of retryFailedBatches
SelectFailedBatches(tbl, ca) ==
  Limit(OldestFirst({i \in DOMAIN tbl : SweepSelects(tbl[i])}, ca), SWEEP_LIMIT)

SweepInit ==
  /\ batch = NoBatch
  /\ createdBy = "none"
  /\ wallets = [collector |-> "0xA", recycler |-> "0xB"]
  /\ initialized = TRUE
  /\ RunsIdle
  /\ VerificationIdle
  /\ AsideIdle
  /\ batches \in Tables
  /\ created_at \in CreationOrders
  /\ spc = "select"
  /\ SweepNotStarted

\* the selection query returns its rows
SweepQuery ==
  /\ spc = "select"
  /\ failedBatches' = SelectFailedBatches(batches, created_at)
  /\ spc' = "loop"
  /\ UNCHANGED <<minting, aside, verification, batches, created_at, called, inMint,
                 successful, failed, sweepResult>>

\* the selection query fails: the outer catch returns zeros
SweepQueryFails ==
  /\ spc = "select"
  /\ sweepResult' = [retried |-> 0, successful |-> 0, failed |-> 0]
  /\ spc' = "returned"
  /\ UNCHANGED <<minting, aside, verification, batches, created_at, failedBatches,
                 called, inMint, successful, failed>>

\* the loop takes the next selected row and calls triggerMint on its id
SweepCall ==
  /\ spc = "loop"
  /\ Len(called) < Len(failedBatches)
  /\ called' = Append(called, failedBatches[Len(called) + 1])
  /\ inMint' = inMint \cup {failedBatches[Len(called) + 1]}
  /\ spc' = "mint"
  /\ UNCHANGED <<minting, aside, verification, batches, created_at, failedBatches,
                 successful, failed, sweepResult>>

\* the awaited triggerMint call returns its MintResult or throws
SweepMintEnds(o) ==
  /\ spc = "mint"
  /\ inMint' = inMint \ {called[Len(called)]}
  /\ successful' = IF o = "success" THEN successful + 1 ELSE successful
  /\ failed' = IF o = "success" THEN failed ELSE failed + 1
  /\ spc' = "loop"
  /\ UNCHANGED <<minting, aside, verification, batches, created_at, failedBatches,
                 called, sweepResult>>

\* the loop is over: the counts are returned
SweepReturn ==
  /\ spc = "loop"
  /\ Len(called) = Len(failedBatches)
  /\ sweepResult' = [retried |-> Len(failedBatches),
                     successful |-> successful, failed |-> failed]
  /\ spc' = "returned"
  /\ UNCHANGED <<minting, aside, verification, batches, created_at, failedBatches,
                 called, inMint, successful, failed>>

SweepNext ==
  \/ SweepQuery
  \/ SweepQueryFails
  \/ SweepCall
  \/ \E o \in {"success", "failure", "thrown"} : SweepMintEnds(o)
  \/ SweepReturn

SweepSpec == SweepInit /\ [][SweepNext]_vars

TypeOK ==
  /\ batch.exists \in BOOLEAN
  /\ batch.exists => /\ batch.last_attempt \in Timestamps
                     /\ batch.mint_status \in MintStatuses \cup {NULL}
  /\ \A p \in Callers : retryCount[p] \in 0..(MAX_RETRIES + 1)

(***************************************************************************)
(* Properties.                                                             *)
(***************************************************************************)
\* caller p takes a step of its run
Stepped(p) == pc'[p] # pc[p]

\* the outcome of the run's latest executeMintTransaction call
LastOutcome(p) == outcomes[p][Len(outcomes[p])]

\* the run's latest attempt failed with a non-retryable error
FailedNonRetryably(p) ==
  /\ outcomes[p] # <<>>
  /\ LastOutcome(p) \in {"CONTRACT_ERROR", "INSUFFICIENT_FUNDS"}

\* all of the run's attempts so far failed with retryable errors
AllFailedRetryably(p) ==
  \A i \in 1..Len(outcomes[p]) :
    outcomes[p][i] \in {"GAS_ERROR", "NONCE_ERROR", "TRANSACTION_ERROR"}

\* the row satisfies the eligibility rule of the specification
Eligible(b) ==
  /\ b.exists
  /\ b.verification_status = "verified"
  /\ b.mint_status \in {NULL, "FAILED_ON_CHAIN"}

\* C1: of the triggerMint runs on the batch that overlap in time, at most
\* one passes the eligibility check and makes a chain submission.
C1_MintIdempotence ==
  Cardinality({p \in Callers : InFlight(p) /\ Attempts(p) >= 1}) <= 1

\* C2: a run whose eligibility read finds no row, a row that is not
\* verified, or a row whose mint_status is PENDING_MINT, RETRYING or MINTED
\* returns failure at that read without writing the row and without a chain
\* submission; every run that makes a chain submission read a verified row.
C2_Eligibility ==
  /\ [](\A p \in Callers : Attempts(p) >= 1 => snapVer[p] = "verified")
  /\ [][\A p \in Callers :
          (pc[p] = "getBatch" /\ Stepped(p) /\ ~Eligible(batch))
            => /\ pc'[p] = "done"
               /\ result'[p] = "not_eligible"
               /\ batch' = batch
               /\ Attempts(p) = 0 /\ outcomes'[p] = <<>>]_vars

\* C2 witness: the run launched by an approval has returned "not eligible"
\* without a submission, the batch having been rejected meanwhile.
C2_Witness ==
  /\ pc["verify"] = "done"
  /\ result["verify"] = "not_eligible"
  /\ Attempts("verify") = 0
  /\ batch.exists
  /\ batch.verification_status = "rejected"
  /\ batch.mint_status = NULL

C4_MintedTerminal ==
  [][(batch.exists /\ batch.mint_status = "MINTED")
       => /\ batch'.mint_status = "MINTED"
          /\ batch'.tx_hash = batch.tx_hash
          /\ batch'.block_number = batch.block_number]_vars

C6_NonRetryableAborts ==
  /\ [](\A p \in Callers :
          (InFlight(p) /\ FailedNonRetryably(p)) => pc[p] = "writeFailed")
  /\ [][\A p \in Callers :
          (InFlight(p) /\ FailedNonRetryably(p) /\ Stepped(p))
            => /\ pc'[p] = "done"
               /\ outcomes'[p] = outcomes[p]
               /\ batch'.mint_status = "FAILED_ON_CHAIN"]_vars

\* C6 witness: the second attempt of a run failed with a contract revert
\* and the run is at its FAILED_ON_CHAIN write.
C6_Witness ==
  \E p \in Callers :
    /\ pc[p] = "writeFailed"
    /\ outcomes[p] = <<"GAS_ERROR", "CONTRACT_ERROR">>

C8_ExhaustedThenEligible ==
  /\ [][\A p \in Callers :
          (/\ pc[p] = "writeFailed" /\ Stepped(p)
           /\ Attempts(p) = MAX_RETRIES /\ AllFailedRetryably(p))
            => /\ batch'.mint_status = "FAILED_ON_CHAIN"
               /\ batch'.retry_count = MAX_RETRIES
               /\ batch'.mint_error = LastOutcome(p)
               /\ pc'[p] = "done" /\ result'[p] = "failed"]_vars
  /\ [][\A p \in Callers :
          (/\ pc[p] = "getBatch" /\ Stepped(p)
           /\ batch.exists /\ batch.verification_status = "verified"
           /\ batch.mint_status = "FAILED_ON_CHAIN")
            => pc'[p] = "getAddresses"]_vars
  /\ [][\A p \in Callers :
          (pc[p] = "writePending" /\ Stepped(p))
            => /\ batch'.mint_status = "PENDING_MINT"
               /\ batch'.retry_count = 0]_vars

\* C8 witness: the first run exhausted its retries, and the second run,
\* started from FAILED_ON_CHAIN by the manual retry, has persisted
\* PENDING_MINT with retry_count 0.
C8_Witness ==
  /\ exhausted
  /\ runs = 2
  /\ pc["manual"] = "attempt"
  /\ Attempts("manual") = 0
  /\ batch.mint_status = "PENDING_MINT"
  /\ batch.retry_count = 0

\* the changes of mint_status a run makes when no other run interferes
AllowedTransitions ==
  {<<NULL, "PENDING_MINT">>, <<"FAILED_ON_CHAIN", "PENDING_MINT">>,
   <<"PENDING_MINT", "MINTED">>, <<"PENDING_MINT", "RETRYING">>,
   <<"RETRYING", "RETRYING">>, <<"RETRYING", "MINTED">>,
   <<"RETRYING", "FAILED_ON_CHAIN">>, <<"PENDING_MINT", "FAILED_ON_CHAIN">>}

\* a write of the mint columns made while no two runs have overlapped
\* follows an allowed transition, PENDING_MINT -> FAILED_ON_CHAIN only
\* after a non-retryable first attempt
RunWriteAllowed ==
  (/\ ~overlapped'
   /\ batch.exists
   /\ \E p \in Callers :
        Stepped(p) /\ pc[p] \in {"writePending", "writeMinted",
                                 "writeRetrying", "writeFailed"})
    => /\ <<batch.mint_status, batch'.mint_status>> \in AllowedTransitions
       /\ (batch.mint_status = "PENDING_MINT"
           /\ batch'.mint_status = "FAILED_ON_CHAIN")
            => \E p \in Callers :
                 /\ Stepped(p)
                 /\ Attempts(p) = 1
                 /\ FailedNonRetryably(p)

\* C9: as long as no two runs have overlapped, every change of the
\* persisted mint_status is made by a write of a run and follows one of
\* the allowed transitions, PENDING_MINT -> FAILED_ON_CHAIN only when the
\* run's first attempt failed non-retryably.
C9_Transitions ==
  /\ [][(batch.exists /\ batch'.mint_status # batch.mint_status)
         => \E p \in Callers :
              Stepped(p) /\ pc[p] \in {"writePending", "writeMinted",
                                       "writeRetrying", "writeFailed"}]_vars
  /\ [][RunWriteAllowed]_vars

\* C9 witness: without any overlap a run has gone from RETRYING to
\* FAILED_ON_CHAIN after a non-retryable second failure.
C9_Witness ==
  /\ ~overlapped
  /\ \E p \in Callers :
       /\ pc[p] = "done"
       /\ outcomes[p] = <<"GAS_ERROR", "INSUFFICIENT_FUNDS">>
       /\ batch.mint_status = "FAILED_ON_CHAIN"

\* C10: the only write that lowers the persisted retry_count is the
\* PENDING_MINT write of a fresh trigger.
C10_RetryCountMonotone ==
  [][(batch.exists /\ batch'.retry_count < batch.retry_count)
       => /\ batch'.mint_status = "PENDING_MINT"
          /\ \E p \in Callers : pc[p] = "writePending" /\ Stepped(p)]_vars

HasTransactions ==
  /\ summary.load = "ok"
  /\ summary.transactionCount >= 1

\* C12: for a batch with transactions of total weight o > 0 and a verified
\* weight v, verifyBatchWeight returns APPROVED iff 100|o - v| <= 5o,
\* FLAGGED iff 5o < 100|o - v| <= 20o and REJECTED otherwise; for a batch
\* without transactions or without a row it returns REJECTED with a
\* difference of 100%.
C12_Classification ==
  wpc = "returned" =>
    IF HasTransactions /\ summary.totalOriginalWeight > 0
    THEN /\ verificationResult.status = "APPROVED"
              <=> 100 * Abs(summary.totalOriginalWeight - verified_weight_total)
                    <= 5 * summary.totalOriginalWeight
         /\ verificationResult.status = "FLAGGED"
              <=> /\ 5 * summary.totalOriginalWeight
                       < 100 * Abs(summary.totalOriginalWeight - verified_weight_total)
                  /\ 100 * Abs(summary.totalOriginalWeight - verified_weight_total)
                       <= 20 * summary.totalOriginalWeight
         /\ verificationResult.status = "REJECTED"
              <=> 100 * Abs(summary.totalOriginalWeight - verified_weight_total)
                    > 20 * summary.totalOriginalWeight
    ELSE /\ verificationResult.status = "REJECTED"
         /\ verificationResult.weightDifferencePercentage.num
              = 100 * verificationResult.weightDifferencePercentage.den

\* C12 witness: a verified weight exactly 5% below the original weight has
\* been classified APPROVED.
C12_Witness ==
  /\ wpc = "returned"
  /\ HasTransactions
  /\ summary.totalOriginalWeight = 20
  /\ verified_weight_total = 19
  /\ verificationResult.status = "APPROVED"

C16_OneAuditRow ==
  wpc = "returned" =>
    /\ Len(audit_log) = 1
    /\ audit_log[1].verified_weight = verified_weight_total
    /\ audit_log[1].original_weight = verificationResult.originalWeight

\* C14: the persisted verification_status changes only from pending to
\* verified or from pending to rejected.
C14_VerificationFinal ==
  [][(batch.exists /\ batch'.verification_status # batch.verification_status)
       => /\ batch.verification_status = "pending"
          /\ batch'.verification_status \in {"verified", "rejected"}]_vars

\* a verifyBatch request completes its update and responds
Responds(v) == vpc[v] = "classify" /\ vpc'[v] = "idle"

MeetsSweepConditions(i) ==
  /\ batches[i].mint_status = "FAILED_ON_CHAIN"
  /\ batches[i].retry_count < MAX_RETRIES
  /\ batches[i].last_attempt \in {NULL, "old"}

\* C17: retryFailedBatches calls triggerMint only on batches that had
\* mint_status FAILED_ON_CHAIN, retry_count < MAX_RETRIES and last_attempt
\* null or older than an hour when selected; on at most 10 of them, every
\* older such batch having been called before; one call at a time; and
\* the counts returned satisfy retried = successful + failed.
C17_SweepSelection ==
  /\ [](\A k \in 1..Len(called) :
          /\ MeetsSweepConditions(called[k])
          /\ \A j \in Ids :
               (MeetsSweepConditions(j) /\ created_at[j] < created_at[called[k]])
                 => \E l \in 1..(k - 1) : called[l] = j)
  /\ [](Len(called) <= 10 /\ Cardinality(inMint) <= 1)
  /\ [](spc = "returned"
          => /\ sweepResult.retried = sweepResult.successful + sweepResult.failed
             /\ sweepResult.retried = Len(called)
             /\ inMint = {})
  /\ [][Len(called') > Len(called) => inMint = {}]_vars

\* C17 witness: a sweep over a table whose newest rows come first has
\* returned; it retried 10 batches, some with success and some without,
\* and left one selectable batch, the newest, for a later sweep.
C17_Witness ==
  /\ spc = "returned"
  /\ sweepResult.retried = 10
  /\ sweepResult.successful >= 1
  /\ sweepResult.failed >= 1
  /\ created_at[1] > created_at[2]
  /\ \E j \in Ids : MeetsSweepConditions(j) /\ \A k \in 1..Len(called) : called[k] # j

\* C18: a batch in FAILED_ON_CHAIN whose one-hour cooldown has elapsed,
\* one that exhausted its MAX_RETRIES attempts included, is selected by
\* the sweep's query.
C18_FailedIsSwept ==
  (/\ batch.exists
   /\ batch.mint_status = "FAILED_ON_CHAIN"
   /\ batch.last_attempt = "old")
    => SweepSelects(batch)

\* C19: when the process is shut down during a backoff sleep or a
\* confirmation wait, the row it leaves is one the eligibility read of a
\* later triggerMint accepts, so that minting can resume.
C19_ResumableAfterShutdown ==
  [][(~interrupted /\ interrupted') => GetBatchForMinting(batch') # NoBatch]_vars

AddressesUsable ==
  /\ wallets.collector \notin {NULL, ""}
  /\ wallets.recycler \notin {NULL, ""}

\* the mint columns of the batches row
MintColumns(b) ==
  <<b.mint_status, b.retry_count, b.last_attempt, b.mint_error,
    b.tx_hash, b.block_number>>

\* C21: when the collector's or the recycler's wallet address is NULL or
\* empty, a triggerMint run returns a missing- or invalid-address failure
\* from its address step, the mint columns of the row are never written
\* and no run reaches the PENDING_MINT write or a chain submission.
C21_MissingAddressFrame ==
  /\ [][\A p \in Callers :
          (~AddressesUsable /\ pc[p] = "getAddresses" /\ Stepped(p))
            => /\ pc'[p] = "done"
               /\ result'[p] \in {"Missing wallet addresses",
                                  "Invalid wallet addresses"}
               /\ batch' = batch
               /\ outcomes'[p] = <<>>]_vars
  /\ [][(~AddressesUsable /\ batch.exists)
          => MintColumns(batch') = MintColumns(batch)]_vars
  /\ [](~AddressesUsable
          => \A p \in Callers :
               /\ pc[p] \in {"idle", "delay", "getBatch", "getAddresses", "done"}
               /\ Attempts(p) = 0)

\* a run has returned the invalid-address failure on a failed batch whose
\* collector has an empty wallet address
C21_Witness ==
  /\ wallets.collector = ""
  /\ wallets.recycler = "0xB"
  /\ pc["manual"] = "done"
  /\ result["manual"] = "Invalid wallet addresses"
  /\ batch = FailedRow

\* C23: the step of verifyBatch that launches triggerMintAsync is the step
\* that sends the response, made while the mint run has not started; and
\* no step of a triggerMint run, whatever it returns, changes a request
\* handler's position or the classification it answered with.
C23_ResponseDoesNotWait ==
  /\ [][(pc["verify"] # "delay" /\ pc'["verify"] = "delay")
          => /\ \E v \in Verifiers : Responds(v)
             /\ verdict' = "APPROVED"
             /\ result'["verify"] = "none"
             /\ outcomes'["verify"] = <<>>]_vars
  /\ [][\A p \in Callers :
          (Stepped(p) /\ pc[p] \notin {"idle"})
            => (vpc' = vpc /\ verdict' = verdict)]_vars
  /\ [](\A v \in Verifiers : vpc[v] \in {"idle", "classify"})

\* every request has been answered, the last one with APPROVED, while the
\* run it launched is inside executeMintTransaction
C23_Witness ==
  /\ \A v \in Verifiers : vpc[v] = "idle"
  /\ verdict = "APPROVED"
  /\ pc["verify"] = "attempt"


\* C22: every error caught inside executeMintTransaction is thrown as a
\* typed error that is retryable iff the rejection was a gas-estimation
\* failure, a nonce conflict or a generic transaction or network failure;
\* and a contract revert, at whichever step it is reported, is the last
\* attempt of the run.
C22_ErrorTaxonomy ==
  \A i \in 1..Len(raised) :
    /\ raised[i].thrown \in TypedErrors
    /\ Retryable(raised[i].thrown)
         <=> raised[i].raw.cause \in {"gas", "nonce", "network", "noReceipt"}
    /\ raised[i].raw.cause = "revert"
         => /\ i = Len(raised)
            /\ pc["manual"] \in {"writeFailed", "done"}

\* C28: one triggerMint run broadcasts at most one mint transaction.
C28_SingleBroadcast == broadcasts <= 1

\* the run has made the PENDING_MINT write
PastPendingWrite(p) ==
  pc[p] \notin {"idle", "delay", "getBatch", "getAddresses", "writePending",
                "done"}

\* C30: when every chain call returns and every statement succeeds, a
\* triggerMint call returns, and once it has written PENDING_MINT it
\* returns only by the step that writes MINTED or FAILED_ON_CHAIN, so the
\* row it leaves holds one of the two.
C30_TerminatesWithFinalStatus ==
  /\ InFlight("manual") ~> (pc["manual"] = "done")
  /\ [][(PastPendingWrite("manual") /\ pc'["manual"] = "done")
          => /\ pc["manual"] \in {"writeMinted", "writeFailed"}
             /\ batch'.mint_status \in {"MINTED", "FAILED_ON_CHAIN"}
             /\ result'["manual"] \in {"success", "failed"}]_vars
  /\ [](pc["manual"] = "done"
          => batch.mint_status \in {"MINTED", "FAILED_ON_CHAIN"})

\* the run has returned failure after MAX_RETRIES retryable failures and
\* two backoff sleeps, the row holding FAILED_ON_CHAIN
C30_Witness ==
  /\ pc["manual"] = "done"
  /\ result["manual"] = "failed"
  /\ Attempts("manual") = MAX_RETRIES
  /\ Len(sleeps["manual"]) = 2
  /\ batch.mint_status = "FAILED_ON_CHAIN"


Round2(pct) == (pct.num * 200 + pct.den) \div (2 * pct.den)

\* C25: once verifyBatch has completed, the row's
\* weight_difference_percentage holds the percentage verifyBatchWeight
\* computed for that request, rounded to two decimals; so the row of a
\* FLAGGED batch holds a difference above 5.
C25_DifferenceRecorded ==
  wpc = "responded" =>
    /\ stored.weight_difference_percentage # NoPercentage
    /\ stored.weight_difference_percentage.hundredths
         = Round2(verificationResult.weightDifferencePercentage)
    /\ verificationResult.status = "FLAGGED"
         => stored.weight_difference_percentage.hundredths > 500

\* C29: every verifyBatchWeight call classifies the verified weight against
\* the sum of the member transactions' weights, whatever total_weight_grams
\* the row holds by then.
C29_ComparesMemberSum ==
  wpc \in {"log", "returned"} =>
    /\ verificationResult.originalWeight = summary.totalOriginalWeight
    /\ verificationResult.status = "APPROVED"
         <=> 100 * Abs(summary.totalOriginalWeight - verified_weight_total)
               <= 5 * summary.totalOriginalWeight
    /\ verificationResult.status = "REJECTED"
         <=> 100 * Abs(summary.totalOriginalWeight - verified_weight_total)
               > 20 * summary.totalOriginalWeight

\* a second request has been classified APPROVED against the member sum
\* while the row holds the weight of the first, FLAGGED, request, against
\* which the same verified weight is out of tolerance
C29_Witness ==
  /\ round = 2
  /\ wpc = "returned"
  /\ verificationResult.status = "APPROVED"
  /\ stored.verification_status = "pending"
  /\ stored.total_weight_grams # summary.totalOriginalWeight
  /\ 100 * Abs(stored.total_weight_grams - verified_weight_total)
       > 5 * stored.total_weight_grams


\* the transactions of the summary that weigh under 100 g
UnderHundred == {i \in 1..summary.transactionCount :
                   summary.transactions[i].weight_grams < 100}

\* the span of the creation times, in ms
TimeSpan ==
  Max({summary.transactions[i].created_at : i \in 1..summary.transactionCount})
  - Min({summary.transactions[i].created_at : i \in 1..summary.transactionCount})

\* C27: for a batch that is found, riskScore is 30 if at least 80% of the
\* transactions weigh under 100 g, plus 40 if all weights are the same and
\* there are more than 5 transactions, plus 20 if a citizen appears more
\* than once, plus 25 if the average weight exceeds 10000 g, plus 15 if the
\* creation times of the (two or more) transactions span less than 60 s;
\* isSuspicious iff riskScore > 50; a batch that is not found gets 100 with
\* one reason.
C27_RiskScore ==
  fpc = "returned" =>
    /\ detection.isSuspicious <=> detection.riskScore > 50
    /\ summary.load = "notfound"
         => detection.riskScore = 100 /\ Len(detection.reasons) = 1
    /\ summary.load = "ok"
         => detection.riskScore =
              (IF 100 * Cardinality(UnderHundred) >= 80 * summary.transactionCount
               THEN 30 ELSE 0)
              + (IF /\ \A i, j \in 1..summary.transactionCount :
                         summary.transactions[i].weight_grams
                           = summary.transactions[j].weight_grams
                    /\ summary.transactionCount > 5
                 THEN 40 ELSE 0)
              + (IF \E i, j \in 1..summary.transactionCount :
                      /\ i < j
                      /\ summary.transactions[i].citizen_id
                           = summary.transactions[j].citizen_id
                 THEN 20 ELSE 0)
              + (IF summary.totalOriginalWeight > 10000 * summary.transactionCount
                 THEN 25 ELSE 0)
              + (IF summary.transactionCount > 1 /\ TimeSpan < 60000
                 THEN 15 ELSE 0)


\* C26: the three shares calculateEIURewards returns add up to the totalEIU
\* it returns, and for 10000 g in 10 transactions it returns 850, 100, 50
\* and 1000.
C26_SharesSumToTotal ==
  rpc = "returned" =>
    /\ Plus(Plus(rewards.citizenRewards, rewards.collectorBonus),
            rewards.recyclerReward) = rewards.totalEIU
    /\ (rewardWeight = 10000 /\ transactionCount = 10)
         => rewards = [citizenRewards |-> Number(850),
                       collectorBonus |-> Number(100),
                       recyclerReward |-> Number(50),
                       totalEIU |-> Number(1000)]

====
